---- MODULE Spec2Model ----
(***************************************************************************)
(* Model of conversion.py: a parallel FLAC -> Opus batch transcoder.       *)
(*                                                                         *)
(* main() checks the root, gathers the *.flac files, submits one           *)
(* convert_file task per file to a ProcessPoolExecutor, drains the         *)
(* futures as they complete into three counters, logs a summary and        *)
(* exits.  Spec is one run of main(); SpecRerun runs main() up to MaxRuns  *)
(* times over one directory.                                               *)
(*                                                                         *)
(* A path is the sequence of the characters of its file name; the words    *)
(* "flac", "opus" and "jpg" are single characters of the alphabet, so the  *)
(* pathlib operations (name, suffix, with_suffix, the *.flac pattern) are  *)
(* computed on names as pathlib computes them.  All files are siblings:    *)
(* with_suffix never changes the directory part of a path.                 *)
(*                                                                         *)
(* The environment decides what the code cannot: whether ffmpeg can be     *)
(* spawned, whether it exits 0, which files it leaves behind, whether a    *)
(* filesystem probe raises, and whether a worker process dies.             *)
(***************************************************************************)
EXTENDS Integers, Sequences, FiniteSets, TLC

\* ---- bounds of the model ------------------------------------------------
MaxFiles == 2      \* at most this many .flac files under the root
MaxJobs == 2       \* --jobs ranges over 0..MaxJobs
MaxRuns == 2       \* main() is run at most this many times over the tree
MaxRerunFiles == 1 \* at most this many .flac files in a tree that is run over again

\* ---- paths ----------------------------------------------------------------
\* The .flac names the directory may hold: a plain file, a macOS "._"
\* sidecar, and the two hidden-file names ".flac" and ".flac.flac".
FlacNames ==
    { <<"a", ".", "flac">>,
      <<".", "_", "a", ".", "flac">>,
      <<".", "flac">>,
      <<".", "flac", ".", "flac">> }

\* Index of the last "." of a name, 0 when there is none (str.rfind + 1).
RFindDot(name) ==
    LET dots == {i \in 1..Len(name) : name[i] = "."}
    IN  IF dots = {} THEN 0 ELSE CHOOSE i \in dots : \A j \in dots : j <= i

\* PurePath.suffix: the text from the last dot on, unless that dot is the
\* first or the last character of the name.
Suffix(name) ==
    LET i == RFindDot(name)
    IN  IF 1 < i /\ i < Len(name) THEN SubSeq(name, i, Len(name)) ELSE <<>>

\* PurePath.with_suffix(ext): drop the old suffix (if any), append the new.
WithSuffix(name, ext) ==
    SubSeq(name, 1, Len(name) - Len(Suffix(name))) \o <<".", ext>>

\* flac_path.name.startswith('._')
IsSidecar(name) == Len(name) >= 2 /\ name[1] = "." /\ name[2] = "_"

\* fnmatch of the pattern '*.flac' against a file name.
MatchesFlac(name) ==
    Len(name) >= 2 /\ name[Len(name) - 1] = "." /\ name[Len(name)] = "flac"

OpusPath(flac) == WithSuffix(flac, "opus")
CoverPath(flac) == WithSuffix(flac, "jpg")

\* The order in which a walk of the directory lists its entries: fixed for
\* a given tree.  The model lists every path it knows in one fixed order.
WalkOrder ==
    << <<"a", ".", "flac">>, <<"a", ".", "opus">>, <<"a", ".", "jpg">>,
       <<"b", ".", "flac">>, <<"b", ".", "opus">>, <<"b", ".", "jpg">>,
       <<"c", ".", "flac">>, <<"c", ".", "opus">>, <<"c", ".", "jpg">>,
       <<".", "_", "a", ".", "flac">>, <<".", "_", "a", ".", "opus">>,
       <<".", "_", "a", ".", "jpg">>,
       <<".", "flac">>, <<".", "flac", ".", "flac">>,
       <<".", "flac", ".", "opus">>, <<".", "flac", ".", "jpg">> >>

\* gather_flac_files: list(root.rglob('*.flac')), the entries under the
\* root that match the pattern, in walk order.
GatherFlacFiles(files) ==
    SelectSeq(WalkOrder, LAMBDA p : p \in files /\ MatchesFlac(p))

\* ---- state ----------------------------------------------------------------
VARIABLES
    fs,          \* the files that exist under the root (set of names)
    rootIsDir,   \* args.root.is_dir()
    media,       \* per .flac file: what ffmpeg will make of it
    run,         \* which execution of main() this is
    dry_run,     \* args.dry_run
    jobs,        \* args.jobs
    pc,          \* where main() is
    flac_list,   \* the discovered inputs, in submission order
    nsub,        \* how many of them have been submitted to the pool
    tpc,         \* per task: where its convert_file call is
    result,      \* per task: what its future holds once done
    broken,      \* the pool has lost a worker process (BrokenProcessPool)
    drained,     \* the tasks whose future the aggregating loop has consumed
    converted, skipped, errors,   \* the three counters of main()
    summary,     \* the "Conversion complete" line has been logged
    exitCode,    \* the process exit status, -1 while running
    spawns,      \* subprocess.run calls made in this run
    startFs,     \* the files that existed when this run started
    cover,       \* per task: what extract_cover did
    trans,       \* per task: what the audio transcode did
    prev         \* the outcome of the previous run of main()

vars == <<fs, rootIsDir, media, run, dry_run, jobs, pc, flac_list, nsub, tpc, result,
          broken, drained, converted, skipped, errors, summary, exitCode,
          spawns, startFs, cover, trans, prev>>

total == Len(flac_list)
Tasks == 1..Len(flac_list)

\* A future's content: the tuple convert_file returned, or an exception.
Returned(c, s, e) == [exc |-> FALSE, tup |-> <<c, s, e>>]
Raised == [exc |-> TRUE, tup |-> <<FALSE, FALSE, FALSE>>]
NoResult == [exc |-> FALSE, tup |-> <<FALSE, FALSE, FALSE>>]

\* The steps of convert_file at which the worker is executing the task.
Executing == {"check", "cover", "cover_run", "trans", "trans_run"}
\* The steps at which the task waits on an ffmpeg child process.
InTool == {"cover_run", "trans_run"}

NumExecuting == Cardinality({i \in Tasks : tpc[i] \in Executing})
NumInTool == Cardinality({i \in Tasks : tpc[i] \in InTool})

\* Every .flac path the model knows.
AllFlacs == {WalkOrder[k] : k \in {n \in 1..Len(WalkOrder) : MatchesFlac(WalkOrder[n])}}

\* What is known of a file's content: "unknown" leaves every outcome of
\* ffmpeg open (it may also fail to start); "clean" is valid audio without
\* an embedded image on a machine where ffmpeg runs; "corrupt" makes ffmpeg
\* exit nonzero.
Unknown == [f \in AllFlacs |-> "unknown"]

\* subprocess.run starts ffmpeg (TRUE) or raises before it runs (FALSE).
SpawnOutcomes(flac) == IF media[flac] = "unknown" THEN BOOLEAN ELSE {TRUE}

\* The cover extraction's exit: <<status is 0, a .jpg was written>>.
CoverOutcomes(flac) ==
    CASE media[flac] = "clean" -> {<<TRUE, FALSE>>}
      [] media[flac] = "corrupt" -> {<<FALSE, FALSE>>, <<FALSE, TRUE>>}
      [] OTHER -> BOOLEAN \X BOOLEAN

\* The transcode's exit: <<status is 0, an .opus was left on disk>>.
TranscodeOutcomes(flac) ==
    CASE media[flac] = "clean" -> {<<TRUE, TRUE>>}
      [] media[flac] = "corrupt" -> {<<FALSE, FALSE>>, <<FALSE, TRUE>>}
      [] OTHER -> {<<TRUE, TRUE>>, <<FALSE, FALSE>>, <<FALSE, TRUE>>}

NoPrev == [valid |-> FALSE, dry |-> FALSE, summary |-> FALSE, converted |-> 0,
           skipped |-> 0, errors |-> 0, total |-> 0, startFs |-> {},
           exitCode |-> 0, failed |-> {}, ok |-> {}]

\* The directories the model starts from: up to MaxFiles .flac files, each
\* possibly with its .opus and .jpg already there; nothing under a root
\* that is not a directory.
OutputsOf(flacs) == {OpusPath(f) : f \in flacs} \cup {CoverPath(f) : f \in flacs}

InitialTrees(n) ==
    {flacs \cup outs : flacs \in {F \in SUBSET FlacNames : Cardinality(F) <= n},
                       outs \in SUBSET OutputsOf(FlacNames)}

\* The state in which main() is first started over a tree of at most n
\* .flac files.
InitOver(n) ==
    /\ rootIsDir \in BOOLEAN
    /\ media = Unknown
    /\ fs \in {t \in InitialTrees(n) :
                /\ (~rootIsDir => t = {})
                /\ \A p \in t : MatchesFlac(p) \/ p \in OutputsOf({f \in t : MatchesFlac(f)})}
    /\ run = 1
    /\ dry_run = FALSE
    /\ jobs = 1
    /\ pc = "parse"
    /\ flac_list = <<>>
    /\ nsub = 0
    /\ tpc = <<>>
    /\ result = <<>>
    /\ broken = FALSE
    /\ drained = {}
    /\ converted = 0 /\ skipped = 0 /\ errors = 0
    /\ summary = FALSE
    /\ exitCode = -1
    /\ spawns = 0
    /\ startFs = fs
    /\ cover = <<>>
    /\ trans = <<>>
    /\ prev = NoPrev

\* ---- main(): lines 113-130 --------------------------------------------------
\* parser.parse_args(): the flags of this invocation.
ParseArgs ==
    /\ pc = "parse"
    /\ dry_run' \in BOOLEAN
    /\ jobs' \in 0..MaxJobs
    /\ pc' = "checkroot"
    /\ UNCHANGED <<fs, rootIsDir, media, run, flac_list, nsub, tpc, result, broken,
                   drained, converted, skipped, errors, summary, exitCode,
                   spawns, startFs, cover, trans, prev>>

\* A root check that accepts everything.
RootOkUnchecked == TRUE

\* The precondition of line 121.
RootOk == rootIsDir

\* if not args.root.is_dir(): sys.exit(1)
CheckRoot ==
    /\ pc = "checkroot"
    /\ IF RootOk
         THEN pc' = "gather" /\ UNCHANGED exitCode
         ELSE pc' = "exit" /\ exitCode' = 1
    /\ UNCHANGED <<fs, rootIsDir, media, run, dry_run, jobs, flac_list, nsub, tpc,
                   result, broken, drained, converted, skipped, errors,
                   summary, spawns, startFs, cover, trans, prev>>

\* flac_list = gather_flac_files(root); total = len(flac_list);
\* if total == 0: return.  The counters are set to 0 on line 132.
\* A main() without the early return of lines 129-130.
NothingFoundIgnored(n) == FALSE

\* if total == 0: return
NothingFound(n) == n = 0

Gather ==
    /\ pc = "gather"
    /\ LET l == GatherFlacFiles(fs) IN
        /\ flac_list' = l
        /\ tpc' = [i \in 1..Len(l) |-> "new"]
        /\ result' = [i \in 1..Len(l) |-> NoResult]
        /\ cover' = [i \in 1..Len(l) |-> "none"]
        /\ trans' = [i \in 1..Len(l) |-> "none"]
        /\ IF NothingFound(Len(l))
             THEN pc' = "exit" /\ exitCode' = 0
             ELSE pc' = "pool" /\ UNCHANGED exitCode
    /\ UNCHANGED <<fs, rootIsDir, media, run, dry_run, jobs, nsub, broken, drained,
                   converted, skipped, errors, summary, spawns, startFs, prev>>

\* ---- main(): the pool, lines 136-137 ----------------------------------------
\* ProcessPoolExecutor(max_workers=args.jobs) raises ValueError for a
\* worker count below 1; nothing in main() catches it, so the interpreter
\* exits with status 1.
CreatePool ==
    /\ pc = "pool"
    /\ IF jobs >= 1
         THEN pc' = "submit" /\ UNCHANGED exitCode
         ELSE pc' = "exit" /\ exitCode' = 1
    /\ UNCHANGED <<fs, rootIsDir, media, run, dry_run, jobs, flac_list, nsub, tpc,
                   result, broken, drained, converted, skipped, errors,
                   summary, spawns, startFs, cover, trans, prev>>

\* pool.submit(worker, flac) for the next file of flac_list.  submit()
\* raises BrokenProcessPool once the pool is broken; the comprehension of
\* line 137 is outside any try, so main() dies with status 1.  After the
\* last submit main() enters the as_completed loop.
Submit ==
    /\ pc = "submit"
    /\ nsub < total
    /\ IF broken
         THEN /\ pc' = "exit" /\ exitCode' = 1
              /\ UNCHANGED <<nsub, tpc>>
         ELSE /\ nsub' = nsub + 1
              /\ tpc' = [tpc EXCEPT ![nsub + 1] = "queued"]
              /\ pc' = IF nsub + 1 = total THEN "drain" ELSE "submit"
              /\ UNCHANGED exitCode
    /\ UNCHANGED <<fs, rootIsDir, media, run, dry_run, jobs, flac_list, result,
                   broken, drained, converted, skipped, errors, summary,
                   spawns, startFs, cover, trans, prev>>

\* ---- the workers: convert_file and extract_cover ---------------------------
\* What a step of a worker leaves alone.
mainVars == <<rootIsDir, media, run, dry_run, jobs, pc, flac_list, nsub, drained,
              converted, skipped, errors, summary, exitCode, startFs, prev>>

\* A pool that starts every queued task at once.
WorkerFreeUnbounded == TRUE

\* A worker process is free to take a task: the pool has max_workers
\* processes, each executing one call at a time.
\* A pool that keeps one of its workers idle: none runs when jobs is 1.
WorkerFreeButOne == NumExecuting < jobs - 1

WorkerFree == NumExecuting < jobs

\* The call queue is first-in first-out: the task a free worker takes is the
\* oldest one submitted and not yet started.
NextQueued(i) == tpc[i] = "queued" /\ \A j \in 1..(i - 1) : tpc[j] # "queued"

StartTask(i) ==
    /\ ~broken
    /\ NextQueued(i)
    /\ WorkerFree
    /\ tpc' = [tpc EXCEPT ![i] = "check"]
    /\ UNCHANGED <<mainVars, fs, result, broken, spawns, cover, trans>>

\* A convert_file without the already-converted check of lines 62-64.
SkipsItemSidecarOnly(flac, files) == IsSidecar(flac)

\* A convert_file without the sidecar check of lines 57-59.
SkipsItemOutputOnly(flac, files) == OpusPath(flac) \in files

\* Lines 54-64 of convert_file: the two skip checks, in order.
SkipsItem(flac, files) == IsSidecar(flac) \/ OpusPath(flac) \in files

\* A worker that bumps a shared skipped counter itself when it skips.
CheckCountsSkip(i) ==
    /\ tpc[i] = "check"
    /\ IF SkipsItem(flac_list[i], fs)
         THEN /\ tpc' = [tpc EXCEPT ![i] = "done"]
              /\ result' = [result EXCEPT ![i] = Returned(FALSE, TRUE, FALSE)]
              /\ skipped' = skipped + 1
         ELSE /\ tpc' = [tpc EXCEPT ![i] = "cover"]
              /\ UNCHANGED <<result, skipped>>
    /\ UNCHANGED <<fs, rootIsDir, media, run, dry_run, jobs, pc, flac_list, nsub,
                   drained, converted, errors, summary, exitCode, startFs, prev,
                   broken, spawns, cover, trans>>

Check(i) ==
    /\ tpc[i] = "check"
    /\ IF SkipsItem(flac_list[i], fs)
         THEN /\ tpc' = [tpc EXCEPT ![i] = "done"]
              /\ result' = [result EXCEPT ![i] = Returned(FALSE, TRUE, FALSE)]
         ELSE /\ tpc' = [tpc EXCEPT ![i] = "cover"]
              /\ UNCHANGED result
    /\ UNCHANGED <<mainVars, fs, broken, spawns, cover, trans>>

\* Lines 21-39 of extract_cover: return False when the .jpg exists, return
\* True without running anything in a dry run, else subprocess.run.  The
\* spawn itself can fail (ffmpeg missing, fork refused): line 44 catches it.
\* An extract_cover without the exists() check of lines 22-24.
CoverExistsIgnored(flac, files) == FALSE

CoverExists(flac, files) == CoverPath(flac) \in files

\* An extract_cover without the dry-run return of lines 37-39.
ExtractCoverIgnoresDryRun == FALSE

\* Line 37: in a dry run extract_cover returns before subprocess.run.
ExtractCoverDry == dry_run

\* A convert_file that lets a failed cover extraction end the item.
AfterCoverStopsOnFailure(ret) == IF ret THEN "trans" ELSE "done"

\* Lines 66-67: convert_file drops extract_cover's return value and goes
\* on to the transcode.
AfterCover(ret) == "trans"

CoverStep(i) ==
    /\ tpc[i] = "cover"
    /\ IF CoverExists(flac_list[i], fs)
         THEN /\ tpc' = [tpc EXCEPT ![i] = AfterCover(FALSE)]
              /\ cover' = [cover EXCEPT ![i] = "exists"]
              /\ UNCHANGED spawns
         ELSE IF ExtractCoverDry
         THEN /\ tpc' = [tpc EXCEPT ![i] = AfterCover(TRUE)]
              /\ cover' = [cover EXCEPT ![i] = "dry"]
              /\ UNCHANGED spawns
         ELSE /\ spawns' = spawns + 1
              /\ \E started \in SpawnOutcomes(flac_list[i]) :
                   IF started
                     THEN /\ tpc' = [tpc EXCEPT ![i] = "cover_run"]
                          /\ UNCHANGED cover
                     ELSE /\ tpc' = [tpc EXCEPT ![i] = AfterCover(FALSE)]
                          /\ cover' = [cover EXCEPT ![i] = "failed"]
    /\ UNCHANGED <<mainVars, fs, result, broken, trans>>

\* Lines 42-46: ffmpeg exits.  Exit status 0 with or without a .jpg written
\* (the input may hold no image), or nonzero, possibly leaving a file.
\* Either way extract_cover returns and convert_file goes on.
CoverExit(i) ==
    /\ tpc[i] = "cover_run"
    /\ \E o \in CoverOutcomes(flac_list[i]) :
        /\ fs' = IF o[2] THEN fs \cup {CoverPath(flac_list[i])} ELSE fs
        /\ cover' = [cover EXCEPT ![i] = IF o[1] THEN "ok" ELSE "failed"]
        /\ tpc' = [tpc EXCEPT ![i] = AfterCover(o[1])]
    /\ UNCHANGED <<mainVars, result, broken, spawns, trans>>

\* A convert_file that does not look at the exit status (check=False).
TranscodeResultUnchecked(ok) == Returned(TRUE, FALSE, FALSE)

\* What convert_file returns for the exit status of the transcode.
TranscodeResult(ok) ==
    IF ok THEN Returned(TRUE, FALSE, FALSE) ELSE Returned(FALSE, FALSE, TRUE)

\* Line 89: in a dry run convert_file returns before subprocess.run.
ConvertDry == dry_run

\* A dry run that reports the item as skipped.
DryRunResultSkipped == Returned(FALSE, TRUE, FALSE)

\* Line 91: what convert_file returns in a dry run.
\* A dry run that reports nothing at all for the item.
DryRunResultNone == Returned(FALSE, FALSE, FALSE)

DryRunResult == Returned(TRUE, FALSE, FALSE)

\* Lines 89-104 of convert_file.  A dry run returns (True, False, False);
\* otherwise subprocess.run: a spawn that fails is caught on line 102.
TranscodeStep(i) ==
    /\ tpc[i] = "trans"
    /\ IF ConvertDry
         THEN /\ tpc' = [tpc EXCEPT ![i] = "done"]
              /\ result' = [result EXCEPT ![i] = DryRunResult]
              /\ trans' = [trans EXCEPT ![i] = "dry"]
              /\ UNCHANGED spawns
         ELSE /\ spawns' = spawns + 1
              /\ \E started \in SpawnOutcomes(flac_list[i]) :
                   IF started
                     THEN /\ tpc' = [tpc EXCEPT ![i] = "trans_run"]
                          /\ UNCHANGED <<result, trans>>
                     ELSE /\ tpc' = [tpc EXCEPT ![i] = "done"]
                          /\ result' = [result EXCEPT ![i] = TranscodeResult(FALSE)]
                          /\ trans' = [trans EXCEPT ![i] = "failed"]
    /\ UNCHANGED <<mainVars, fs, broken, cover>>

\* ffmpeg exits: status 0 with the .opus written, or nonzero
\* (CalledProcessError, line 97), possibly leaving a partial .opus.
TranscodeExit(i) ==
    /\ tpc[i] = "trans_run"
    /\ \E o \in TranscodeOutcomes(flac_list[i]) :
        /\ fs' = IF o[2] THEN fs \cup {OpusPath(flac_list[i])} ELSE fs
        /\ result' = [result EXCEPT ![i] = TranscodeResult(o[1])]
        /\ trans' = [trans EXCEPT ![i] = IF o[1] THEN "ok" ELSE "failed"]
    /\ tpc' = [tpc EXCEPT ![i] = "done"]
    /\ UNCHANGED <<mainVars, broken, spawns, cover>>

\* An exception convert_file does not catch: the exists() probes of lines
\* 62 and 22 are outside every try and raise on, e.g., a permission error.
\* The pool stores the exception in the task's future.  A sidecar name
\* returns at line 59, before the first probe.
UnexpectedException(i) ==
    /\ tpc[i] \in {"check", "cover"}
    /\ tpc[i] = "check" => ~IsSidecar(flac_list[i])
    /\ tpc' = [tpc EXCEPT ![i] = "done"]
    /\ result' = [result EXCEPT ![i] = Raised]
    /\ UNCHANGED <<mainVars, fs, broken, spawns, cover, trans>>

\* The files the running ffmpeg children are writing.
BeingWritten ==
    {OpusPath(flac_list[i]) : i \in {j \in Tasks : tpc[j] = "trans_run"}}
    \cup {CoverPath(flac_list[i]) : i \in {j \in Tasks : tpc[j] = "cover_run"}}

\* The futures a broken pool fails: every one that is not finished.
FailedByBreak(i) == tpc[i] \in Executing \cup {"queued"}

\* The worker process executing task i dies (killed, out of memory).  The
\* executor marks the pool broken, sets BrokenProcessPool on every future
\* that is not finished and terminates the other workers; whatever the
\* ffmpeg children were writing may or may not be left on disk.
WorkerCrash(i) ==
    /\ tpc[i] \in Executing
    /\ broken' = TRUE
    /\ tpc' = [j \in Tasks |-> IF FailedByBreak(j) THEN "done" ELSE tpc[j]]
    /\ result' = [j \in Tasks |-> IF FailedByBreak(j) THEN Raised ELSE result[j]]
    /\ \E left \in SUBSET BeingWritten : fs' = fs \cup left
    /\ trans' = [j \in Tasks |-> IF tpc[j] = "trans_run" THEN "killed" ELSE trans[j]]
    /\ UNCHANGED <<mainVars, spawns, cover>>

\* ---- main(): the aggregating loop, lines 138-155 ----------------------------
\* An aggregator whose elif chain lacks the did_skip branch.
TallyWithoutSkip(r) ==
    IF r.exc THEN "errors"
    ELSE IF r.tup[1] THEN "converted"
    ELSE IF r.tup[3] THEN "errors"
    ELSE "none"

\* The counter lines 141-149 increment for a future's content.
Tally(r) ==
    IF r.exc THEN "errors"
    ELSE IF r.tup[1] THEN "converted"
    ELSE IF r.tup[2] THEN "skipped"
    ELSE IF r.tup[3] THEN "errors"
    ELSE "none"

\* as_completed yields a finished future that has not been yielded yet.
Drain(i) ==
    /\ pc = "drain"
    /\ tpc[i] = "done"
    /\ i \notin drained
    /\ drained' = drained \cup {i}
    /\ converted' = IF Tally(result[i]) = "converted" THEN converted + 1 ELSE converted
    /\ skipped' = IF Tally(result[i]) = "skipped" THEN skipped + 1 ELSE skipped
    /\ errors' = IF Tally(result[i]) = "errors" THEN errors + 1 ELSE errors
    /\ UNCHANGED <<fs, rootIsDir, media, run, dry_run, jobs, pc, flac_list, nsub, tpc,
                   result, broken, summary, exitCode, spawns, startFs, cover, trans,
                   prev>>

\* Lines 154-155: sys.exit(1) if errors > 0, else main() returns.
ExitStatus(errs) == IF errs > 0 THEN 1 ELSE 0

\* Every future has been yielded: the summary line and the exit status.
Summary ==
    /\ pc = "drain"
    /\ drained = Tasks
    /\ summary' = TRUE
    /\ exitCode' = ExitStatus(errors)
    /\ pc' = "exit"
    /\ UNCHANGED <<fs, rootIsDir, media, run, dry_run, jobs, flac_list, nsub, tpc,
                   result, broken, drained, converted, skipped, errors, spawns,
                   startFs, cover, trans, prev>>

\* ---- the next invocation over the same tree --------------------------------
NextRun ==
    /\ pc = "exit"
    /\ run < MaxRuns
    /\ prev' = [valid |-> TRUE, dry |-> dry_run, summary |-> summary,
                converted |-> converted, skipped |-> skipped, errors |-> errors,
                total |-> total, startFs |-> startFs, exitCode |-> exitCode,
                failed |-> {flac_list[i] :
                              i \in {j \in Tasks : trans[j] \in {"failed", "killed"}}},
                ok |-> {flac_list[i] : i \in {j \in Tasks : trans[j] = "ok"}}]
    /\ run' = run + 1
    /\ pc' = "parse"
    /\ flac_list' = <<>> /\ tpc' = <<>> /\ result' = <<>>
    /\ cover' = <<>> /\ trans' = <<>>
    /\ nsub' = 0
    /\ broken' = FALSE
    /\ drained' = {}
    /\ converted' = 0 /\ skipped' = 0 /\ errors' = 0
    /\ summary' = FALSE
    /\ exitCode' = -1
    /\ spawns' = 0
    /\ startFs' = fs
    /\ UNCHANGED <<fs, rootIsDir, media, dry_run, jobs>>

Next ==
    \/ ParseArgs
    \/ CheckRoot
    \/ Gather
    \/ CreatePool
    \/ Submit
    \/ \E i \in Tasks : StartTask(i)
    \/ \E i \in Tasks : Check(i)
    \/ \E i \in Tasks : CoverStep(i)
    \/ \E i \in Tasks : CoverExit(i)
    \/ \E i \in Tasks : TranscodeStep(i)
    \/ \E i \in Tasks : TranscodeExit(i)
    \/ \E i \in Tasks : UnexpectedException(i)
    \/ \E i \in Tasks : WorkerCrash(i)
    \/ \E i \in Tasks : Drain(i)
    \/ Summary

Init == InitOver(MaxFiles)

\* One invocation of main().
Spec == Init /\ [][Next]_vars

\* Repeated invocations over the same tree.
NextRerun == Next \/ NextRun

InitRerun == InitOver(MaxRerunFiles)

SpecRerun == InitRerun /\ [][NextRerun]_vars

\* The scenario of three files: a.flac is clean, b.flac already has its
\* b.opus, c.flac is corrupt.
ScenarioTree ==
    {<<"a", ".", "flac">>, <<"b", ".", "flac">>, <<"b", ".", "opus">>,
     <<"c", ".", "flac">>}

ScenarioMedia ==
    [f \in AllFlacs |->
        IF f = <<"a", ".", "flac">> THEN "clean"
        ELSE IF f = <<"c", ".", "flac">> THEN "corrupt"
        ELSE "unknown"]

InitScenario ==
    /\ rootIsDir = TRUE
    /\ media = ScenarioMedia
    /\ fs = ScenarioTree
    /\ run = 1
    /\ dry_run = FALSE
    /\ jobs = 1
    /\ pc = "parse"
    /\ flac_list = <<>>
    /\ nsub = 0
    /\ tpc = <<>>
    /\ result = <<>>
    /\ broken = FALSE
    /\ drained = {}
    /\ converted = 0 /\ skipped = 0 /\ errors = 0
    /\ summary = FALSE
    /\ exitCode = -1
    /\ spawns = 0
    /\ startFs = fs
    /\ cover = <<>>
    /\ trans = <<>>
    /\ prev = NoPrev

\* A run in which no worker process dies and no filesystem probe raises.
NextNoFault ==
    \/ ParseArgs
    \/ CheckRoot
    \/ Gather
    \/ CreatePool
    \/ Submit
    \/ \E i \in Tasks : StartTask(i)
    \/ \E i \in Tasks : Check(i)
    \/ \E i \in Tasks : CoverStep(i)
    \/ \E i \in Tasks : CoverExit(i)
    \/ \E i \in Tasks : TranscodeStep(i)
    \/ \E i \in Tasks : TranscodeExit(i)
    \/ \E i \in Tasks : Drain(i)
    \/ Summary

SpecScenario == InitScenario /\ [][NextNoFault]_vars

\* A run in which no process is killed.  convert_file may still raise.
NextNoKill ==
    \/ ParseArgs
    \/ CheckRoot
    \/ Gather
    \/ CreatePool
    \/ Submit
    \/ \E i \in Tasks : StartTask(i)
    \/ \E i \in Tasks : Check(i)
    \/ \E i \in Tasks : CoverStep(i)
    \/ \E i \in Tasks : CoverExit(i)
    \/ \E i \in Tasks : TranscodeStep(i)
    \/ \E i \in Tasks : TranscodeExit(i)
    \/ \E i \in Tasks : UnexpectedException(i)
    \/ \E i \in Tasks : Drain(i)
    \/ Summary

\* main() and the workers are scheduled as long as one of them can take a
\* step, and every ffmpeg child that was started exits: while any step of
\* the run is possible, one is eventually taken.
SpecLive == Init /\ [][NextNoKill]_vars /\ WF_vars(NextNoKill)


\* ---- properties -------------------------------------------------------------
\* C5, C7 and C15 are about repeated runs and are checked under SpecRerun,
\* C11 is about one tree and is checked under SpecScenario, C18 is a liveness
\* property and is checked under SpecLive; the others are about one run and
\* are checked under Spec.

\* What the aggregator has counted so far.
Counted == converted + skipped + errors

\* C1: whenever the summary has been logged, converted + skipped + errors
\* equals the number of discovered files; while the futures are drained the
\* three counters add up to the number of futures consumed, so each one
\* adds exactly 1 to exactly one counter.
C1_CountersSumToTotal ==
    /\ Counted = Cardinality(drained)
    /\ summary => drained = Tasks /\ Counted = total

\* A run of two files that ends with one converted and one errored.
C1_Witness ==
    summary /\ total = 2 /\ converted = 1 /\ errors = 1 /\ skipped = 0

\* The tasks whose future holds a failure: an exception, or the tuple
\* (False, False, True).
Failed == {i \in Tasks : tpc[i] = "done" /\ (result[i].exc \/ result[i].tup[3])}

\* C2: when the run has ended, every task that failed without a
\* classification (its future holds an exception) has been consumed by the
\* aggregator, and errors counts each failed task exactly once.
C2_FailedTaskCountedOnce ==
    pc = "exit" =>
        /\ \A i \in Tasks : (tpc[i] = "done" /\ result[i].exc) => i \in drained
        /\ errors = Cardinality(Failed)

\* C3: a run over a valid root exits with status 1 exactly when the errors
\* counter is nonzero.
C3_ExitOneIffErrors ==
    (rootIsDir /\ pc = "exit") => (exitCode = 1 <=> errors > 0)

\* C4: a root that is not a directory takes main() from the check of line
\* 121 straight to exit status 1: no discovery, no task submitted, no
\* subprocess.run call, no file created.
C4_InvalidRootDoesNothing ==
    ~rootIsDir =>
        /\ pc \in {"parse", "checkroot", "exit"}
        /\ flac_list = <<>>
        /\ nsub = 0
        /\ spawns = 0
        /\ fs = startFs
        /\ (pc = "exit" => exitCode = 1 /\ ~summary)

\* main() has exited on an invalid root.
C4_Witness == ~rootIsDir /\ pc = "exit" /\ exitCode = 1

\* The previous run ended without reporting an error: exit status 0.
PrevClean == prev.valid /\ prev.exitCode = 0

\* C5 as stated, for a second run that ends without errors itself: after
\* a run that reported no errors, a second run over the unchanged tree has
\* converted = 0 and skipped = total.
C5_SecondRunSkipsAll ==
    (PrevClean /\ pc = "exit" /\ exitCode = 0) => converted = 0 /\ skipped = total

\* C5 as amended: after a real (not dry) run that reported no errors, a
\* second run converts nothing, and skips every file when it ends without
\* errors itself.
C5_SecondRunAfterRealRun ==
    (PrevClean /\ ~prev.dry) =>
        /\ converted = 0
        /\ (pc = "exit" /\ exitCode = 0) => skipped = total

\* A file converted by a real run is skipped by the next run.
C5_Witness ==
    /\ PrevClean /\ ~prev.dry /\ prev.converted = 1 /\ prev.total = 1
    /\ summary /\ converted = 0 /\ skipped = 1 /\ total = 1

\* C6: in a dry run no subprocess.run call is made, no ffmpeg child is
\* running, and the files under the root are those the run started with.
C6_DryRunTouchesNothing ==
    dry_run => spawns = 0 /\ NumInTool = 0 /\ fs = startFs

\* A dry run over two convertible files has reached its summary.
C6_Witness == dry_run /\ summary /\ total = 2 /\ converted = 2

\* No two discovered inputs derive the same output path.
DistinctOutputs ==
    \A i, j \in Tasks : i # j => OpusPath(flac_list[i]) # OpusPath(flac_list[j])

\* This run is a real run that reached its summary from the tree the
\* previous, dry, run reached its summary from.
RealAfterDry ==
    /\ prev.valid /\ prev.dry /\ prev.summary
    /\ ~dry_run /\ summary /\ startFs = prev.startFs

C8_CoverFailureNeverErrors ==
    /\ \A i \in Tasks : cover[i] = "failed" =>
        /\ tpc[i] \in {"trans", "trans_run", "done"}
        /\ (tpc[i] = "done" /\ ~result[i].exc) =>
              /\ trans[i] \in {"ok", "failed"}
              /\ result[i] = TranscodeResult(trans[i] = "ok")
        /\ (tpc[i] = "done" /\ result[i].exc) => broken
    /\ summary => errors = Cardinality(Failed)

\* A file whose cover extraction failed was converted, and the run ended
\* without errors.
C8_Witness ==
    /\ summary /\ errors = 0 /\ exitCode = 0
    /\ \E i \in Tasks : cover[i] = "failed" /\ trans[i] = "ok"
                        /\ result[i] = Returned(TRUE, FALSE, FALSE)

\* C9: at most jobs tasks are being executed by the workers and at most
\* jobs ffmpeg children are running, however many files were discovered.
C9_AtMostJobsInFlight == NumExecuting <= jobs /\ NumInTool <= jobs

\* Every worker is waiting on ffmpeg while a submitted task still waits
\* for a worker.
C9_Witness ==
    jobs >= 1 /\ NumInTool = jobs /\ \E i \in Tasks : tpc[i] = "queued"

\* C10: a step in which one task ends in a failure changes no other task:
\* every other in-flight or pending task keeps its position and its
\* future, to be classified by its own run of convert_file.
C10_FailuresStayLocal ==
    [][flac_list' = flac_list =>
         \A i \in Tasks :
            (tpc[i] # "done" /\ tpc'[i] = "done"
                /\ (result'[i].exc \/ result'[i].tup[3]))
            => \A j \in Tasks \ {i} : tpc'[j] = tpc[j] /\ result'[j] = result[j]]_vars

\* C11: over the tree of a.flac (clean), b.flac with b.opus, and c.flac
\* (corrupt), a real run with at least one worker, in which no worker dies
\* and no probe raises, ends with the summary converted = 1, skipped = 1,
\* errors = 1 and exit status 1, whatever the worker count and the order in
\* which the tasks complete and are drained.
C11_ScenarioSummary ==
    (pc = "exit" /\ ~dry_run /\ jobs >= 1) =>
        /\ summary
        /\ converted = 1 /\ skipped = 1 /\ errors = 1
        /\ exitCode = 1
        /\ result = <<Returned(TRUE, FALSE, FALSE), Returned(FALSE, TRUE, FALSE),
                      Returned(FALSE, FALSE, TRUE)>>

\* The real run over the three files has ended, with two workers.
C11_Witness ==
    /\ pc = "exit" /\ ~dry_run /\ jobs = 2 /\ total = 3
    /\ converted = 1 /\ skipped = 1 /\ errors = 1 /\ exitCode = 1

\* C12: when discovery finds no .flac file under a valid root, main() goes
\* from discovery straight to exit status 0: it is never at the creation of
\* the pool, at a submit or in the drain loop, no task exists and ffmpeg
\* was never started.
C12_EmptyDiscoveryExitsZero ==
    (rootIsDir /\ GatherFlacFiles(startFs) = <<>>
        /\ pc \notin {"parse", "checkroot", "gather"}) =>
        /\ pc = "exit" /\ exitCode = 0
        /\ flac_list = <<>> /\ tpc = <<>> /\ nsub = 0
        /\ spawns = 0 /\ ~broken /\ fs = startFs

\* A valid root without any .flac file has been walked and main() returned.
C12_Witness ==
    /\ rootIsDir /\ GatherFlacFiles(startFs) = <<>>
    /\ pc = "exit" /\ exitCode = 0 /\ spawns = 0

\* C13: the policy of convert_file is evaluated in order, first match wins.
\* A call that returned for a sidecar name, or for an item whose .opus was
\* there from the start, returned Skipped; a Skipped item saw neither
\* extract_cover nor the transcode step; the transcode step is only reached
\* after extract_cover was called and has returned; and a call that returned
\* anything but Skipped went through both, whatever extract_cover returned.
C13_PolicyInOrder ==
    \A i \in Tasks :
        LET f == flac_list[i]
            returned == tpc[i] = "done" /\ ~result[i].exc
            isSkipped == returned /\ result[i] = Returned(FALSE, TRUE, FALSE)
        IN  /\ (returned /\ (IsSidecar(f) \/ OpusPath(f) \in startFs)) => isSkipped
            /\ isSkipped => cover[i] = "none" /\ trans[i] = "none"
            /\ (tpc[i] \in {"trans", "trans_run"} \/ trans[i] # "none") =>
                    cover[i] \in {"exists", "dry", "ok", "failed"}
            /\ (cover[i] # "none" /\ tpc[i] # "done") =>
                    tpc[i] \in {"trans", "trans_run"}
            /\ (returned /\ ~isSkipped) => cover[i] # "none" /\ trans[i] # "none"

\* One item was skipped for its existing .opus and another was transcoded
\* after its cover extraction had failed.
C13_Witness ==
    \E i, j \in Tasks :
        /\ tpc[i] = "done" /\ result[i] = Returned(FALSE, TRUE, FALSE)
        /\ ~IsSidecar(flac_list[i])
        /\ tpc[j] = "done" /\ cover[j] = "failed" /\ trans[j] = "ok"
        /\ result[j] = Returned(TRUE, FALSE, FALSE)

\* The output paths ffmpeg has been started on (or the start attempted) in
\* this run so far.
ToolTargets ==
    {OpusPath(flac_list[i]) :
        i \in {j \in Tasks : tpc[j] = "trans_run" \/ trans[j] \in {"ok", "failed"}}}
    \cup {CoverPath(flac_list[i]) :
        i \in {j \in Tasks : tpc[j] = "cover_run" \/ cover[j] \in {"ok", "failed"}}}

\* C14: a run leaves the files it found alone.  No file that was there when
\* the run started is ever the output path of an ffmpeg invocation, none is
\* removed, an item whose .opus was there is never taken to the transcode
\* and an item whose .jpg was there gets "exists" from extract_cover.
C14_ExistingFilesUntouched ==
    /\ startFs \subseteq fs
    /\ ToolTargets \cap startFs = {}
    /\ \A i \in Tasks :
        /\ OpusPath(flac_list[i]) \in startFs =>
              /\ trans[i] = "none" /\ cover[i] = "none"
              /\ tpc[i] \notin {"cover", "cover_run", "trans", "trans_run"}
        /\ CoverPath(flac_list[i]) \in startFs =>
              /\ cover[i] \in {"none", "exists"}
              /\ tpc[i] # "cover_run"

\* A real run has ended in which one item had its .opus from the start and
\* another, whose .jpg was there from the start, was transcoded.
C14_Witness ==
    /\ pc = "exit" /\ summary /\ ~dry_run
    /\ \E i, j \in Tasks :
        /\ ~IsSidecar(flac_list[i]) /\ OpusPath(flac_list[i]) \in startFs
        /\ result[i] = Returned(FALSE, TRUE, FALSE)
        /\ CoverPath(flac_list[j]) \in startFs
        /\ cover[j] = "exists" /\ trans[j] = "ok"

\* C15: in a run after an earlier one, an item whose transcode failed or
\* was interrupted in the earlier run is transcoded again and not classified
\* Skipped, and an item the earlier run converted is not transcoded again.
C15_RerunRedoesFailedItems ==
    prev.valid =>
        \A i \in Tasks :
            /\ (flac_list[i] \in prev.failed /\ tpc[i] = "done" /\ ~result[i].exc) =>
                  /\ result[i] # Returned(FALSE, TRUE, FALSE)
                  /\ trans[i] # "none"
            /\ flac_list[i] \in prev.ok =>
                  /\ trans[i] = "none"
                  /\ tpc[i] \notin {"trans", "trans_run"}

\* C16: the counters are touched by the aggregating loop alone.  A step that
\* changes a task's position or result leaves the three counters as they
\* are; a step that changes a counter is taken by main() in its loop, yields
\* exactly one finished future not yielded before, adds exactly 1 to the sum
\* of the counters and moves no task; and every future yielded adds its 1,
\* so none is lost.
C16_OnlyAggregatorCounts ==
    [][ /\ (flac_list' = flac_list /\ (tpc' # tpc \/ result' # result)) =>
              UNCHANGED <<converted, skipped, errors>>
        /\ (flac_list' = flac_list
              /\ <<converted, skipped, errors>>' # <<converted, skipped, errors>>) =>
              /\ pc = "drain" /\ pc' = "drain"
              /\ \E i \in Tasks \ drained :
                    /\ tpc[i] = "done"
                    /\ drained' = drained \cup {i}
              /\ UNCHANGED <<tpc, result, fs, spawns>>
        /\ drained' # drained =>
              converted' + skipped' + errors' = converted + skipped + errors + 1
        /\ converted' + skipped' + errors' = Cardinality(drained')
      ]_vars

\* A finished future has been counted while another task was inside ffmpeg
\* on a second worker.
C16_Witness ==
    /\ pc = "drain" /\ jobs = 2
    /\ \E i, j \in Tasks :
        /\ i \in drained /\ converted + skipped + errors = 1
        /\ tpc[j] \in InTool

\* C17: every tuple convert_file has returned has exactly one component
\* true, so the if/elif chain of the aggregator finds a counter for it.
C17_ExactlyOneFlag ==
    \A i \in Tasks :
        (tpc[i] = "done" /\ ~result[i].exc) =>
            /\ Cardinality({k \in 1..3 : result[i].tup[k]}) = 1
            /\ Tally(result[i]) # "none"

\* A run has ended whose two items returned a Converted and an Errored tuple.
C17_Witness ==
    /\ pc = "exit" /\ summary
    /\ \E i, j \in Tasks :
        /\ result[i] = Returned(TRUE, FALSE, FALSE)
        /\ result[j] = Returned(FALSE, FALSE, TRUE)

\* C18: when no process is killed and every ffmpeg child exits, a run that
\* has created its pool of jobs >= 1 workers over the discovered files
\* eventually has yielded every submitted future to the aggregating loop,
\* logged the summary and reached its exit status.
C18_RunCompletes ==
    (pc = "submit") ~>
        (pc = "exit" /\ summary /\ drained = Tasks /\ nsub = total
            /\ exitCode = ExitStatus(errors))

\* A run of two files that went through ffmpeg has logged its summary.
C18_Witness ==
    /\ pc = "exit" /\ summary /\ jobs >= 1
    /\ total = 2 /\ drained = Tasks /\ spawns >= 2

\* C19: the discovered inputs are pairwise distinct and so are the .opus
\* and .jpg paths derived from them, and no two tasks are at the same time
\* inside an ffmpeg writing one file, or between the existence check of a
\* file and the write of it.
C19_NoSharedOutput ==
    \A i, j \in Tasks :
        i # j =>
            /\ flac_list[i] # flac_list[j]
            /\ OpusPath(flac_list[i]) # OpusPath(flac_list[j])
            /\ CoverPath(flac_list[i]) # CoverPath(flac_list[j])
            /\ ~(tpc[i] = "trans_run" /\ tpc[j] = "trans_run"
                  /\ OpusPath(flac_list[i]) = OpusPath(flac_list[j]))
            /\ ~(tpc[i] = "cover_run" /\ tpc[j] = "cover_run"
                  /\ CoverPath(flac_list[i]) = CoverPath(flac_list[j]))

====
